---- MODULE Spec2Model ----
(***************************************************************************)
(* Model of the tracing-fluentd forwarding pipeline: the unbounded mailbox *)
(* (crossbeam channel), the producers that enqueue records through a       *)
(* Consumer, the owner of the ThreadWorker (a FlushingGuard or a plain     *)
(* Layer) and the background worker thread of src/worker.rs with its       *)
(* fetch / drain / send main loop and its final flush; the building of one  *)
(* record by Layer::on_event with the NestedFmt / FlattenFmt formatters of  *)
(* src/tracing.rs; and the encoding of a Message of src/fluent.rs.          *)
(***************************************************************************)
EXTENDS Integers, Sequences, FiniteSets, TLC

\* ---------------------------------------------------------------- bounds
NP == 2            \* number of producer threads
MaxRec == 3        \* records enqueued in one run, all producers together
MaxCap == 2        \* largest max_msg_record tried (NonZeroUsize, so from 1)
MaxDepth == 2      \* longest chain of nested spans around an event
MaxWalk == 3       \* iterations of the formatter's parent loop that are followed
MaxBatch == 2      \* records in an encoded Message

\* ------------------------------------------------------ program constants
\* a flush loop over 0..2
FlushAttempts_Two == 3 - 1
FlushAttempts == 3 \* `for _ in 0..3` of the final flush
DEFAULT_MAX_MSG_RECORD == 10 \* Builder::new
Tag == "rust"      \* tag handed to Builder::new

Producers == 1..NP
Modes == {"guarded", "plain"}

VARIABLES
    mode,            \* "guarded": layer_guarded (FlushingGuard + WorkerChannel layers); "plain": layer()
    maxMsgRecord,    \* Builder.max_msg_record
    queue,           \* the channel: messages sent and not yet received
    recvAlive,       \* the Receiver (owned by the worker closure) still exists
    owner,           \* owner of the ThreadWorker: "alive", "joining" (inside drop, at join), "joined"
    stopResult,      \* result of the send in ThreadWorker::stop: "none", "ok", "err"
    sent,            \* per producer: number of record() calls made
    ret,             \* per producer: what the last record() call gave back to the caller
    msg,             \* the worker's fluent::Message
    ongoing_writer,  \* the worker's cached writer: "None" or "Conn"
    writer,          \* the writer local of the current send attempt: "None" or "Conn"
    pc,              \* position of the worker thread
    base,            \* msg.len() at the head of the current 'main_loop iteration
    flushIter,       \* iterations of the final flush loop started so far
    written,         \* batches whose write returned Ok, in write order (the sink)
    enq,             \* every message accepted by the channel, in channel order
    received,        \* every message the worker took out of the channel, in order
    everConnected,   \* some make() call has returned Ok
    attempt,         \* outcomes of the make() and write calls of the latest delivery attempt
    fmt,             \* the Layer's FieldFormatter: "Nested" or "Flatten"
    spans,           \* the fluent::Map in the extensions of each span around the event, root first
    event,           \* the observed tracing Event: fields, metadata, clock reading
    event_record,    \* entries of the fluent::Record that on_event is building
    epc,             \* position of on_event: "idle", "start", "walk", "sent"
    walked,          \* the spans bound by the iterations of the parent loop, in order
    message,         \* a fluent::Message handed to rmp_serde::encode::write
    wire             \* what the write put on the wire for it

vars == <<mode, maxMsgRecord, queue, recvAlive, owner, stopResult, sent, ret, msg,
          ongoing_writer, writer, pc, base, flushIter, written, enq, received,
          everConnected, attempt, fmt, spans, event, event_record, epc, walked,
          message, wire>>

\* ------------------------------------------------------------ fluent.rs
MessageNew(tag) == [tag |-> tag, entries |-> <<>>, size |-> 0]

\* a Vec::insert(0, ..) in place of push
MessageAdd_Prepend(m, record) ==
    [m EXCEPT !.entries = <<record>> \o m.entries, !.size = m.size + 1]

MessageAdd(m, record) ==
    [m EXCEPT !.entries = Append(m.entries, record), !.size = m.size + 1]

MessageLen(m) == Len(m.entries)

\* a clear that forgets to reset opts.size
MessageClear_KeepsSize(m) == [m EXCEPT !.entries = <<>>]

MessageClear(m) == [m EXCEPT !.entries = <<>>, !.size = 0]

\* Serialize for Message: the 3-tuple [tag, entries, opts]
Serialize(m) == <<m.tag, m.entries, [size |-> m.size]>>

\* fluent::Value variants
Bool(b) == [kind |-> "Bool", val |-> b]
\* Value::Int(i64)
I64(n) == [kind |-> "Int", val |-> n]
Uint(n) == [kind |-> "Uint", val |-> n]
Str(str) == [kind |-> "Str", val |-> str]
String(str) == [kind |-> "String", val |-> str]
EventLevel(level) == [kind |-> "EventLevel", val |-> level]
Object(map) == [kind |-> "Object", val |-> map]

\* fluent::Map is an IndexMap: a sequence of entries with distinct keys, in
\* insertion order
MapContainsKey(m, k) == \E i \in 1..Len(m) : m[i].key = k

MapKeys(m) == {m[i].key : i \in 1..Len(m)}

\* IndexMap::insert: a new key is appended, a present key keeps its position
\* and gets the new value
MapInsert(m, k, v) ==
    IF MapContainsKey(m, k)
    THEN [i \in 1..Len(m) |-> IF m[i].key = k THEN [key |-> k, value |-> v] ELSE m[i]]
    ELSE Append(m, [key |-> k, value |-> v])

RECURSIVE RecordUpdate_Overwrites(_, _)
\* a merge without the contains_key test
RecordUpdate_Overwrites(entries, other) ==
    IF other = <<>> THEN entries
    ELSE RecordUpdate_Overwrites(MapInsert(entries, Head(other).key, Head(other).value),
                                 Tail(other))

RECURSIVE RecordUpdate(_, _)
\* Record::update: `for (key, value) in other.iter()`, insert unless present
RecordUpdate(entries, other) ==
    IF other = <<>> THEN entries
    ELSE RecordUpdate(IF ~MapContainsKey(entries, Head(other).key)
                      THEN MapInsert(entries, Head(other).key, Head(other).value)
                      ELSE entries,
                      Tail(other))

\* ------------------------------------------------------------ worker.rs
MsgRecord(r) == [type |-> "Record", record |-> r]
MsgTerminate == [type |-> "Terminate"]

IsRecord(x) == x.type = "Record"

\* a drop that joins the thread before it drops the ThreadWorker's Sender
Senders_JoinFirst ==
    (IF owner # "joined" THEN 1 ELSE 0) + (IF mode = "guarded" THEN NP ELSE 0)

\* live Sender handles: the ThreadWorker's own one and, when guarded, one
\* WorkerChannel clone per layer
Senders ==
    (IF owner = "alive" THEN 1 ELSE 0) + (IF mode = "guarded" THEN NP ELSE 0)

\* Sender::send: Ok and queued while the Receiver exists, Err otherwise
SendResult == IF recvAlive THEN "ok" ELSE "err"

SendQueue(q, x) == IF recvAlive THEN Append(q, x) ELSE q

\* a record() that hands the send result to its caller
RecordReturn_Propagates(result) == IF result = "ok" THEN "unit" ELSE result

\* Consumer::record is `let _ = sender.send(..)`: the result is discarded
RecordReturn(result) == "unit"

RECURSIVE SumTo(_, _)
SumTo(f, n) == IF n = 0 THEN 0 ELSE f[n] + SumTo(f, n - 1)

\* record() calls made so far by all producers
TotalSent == SumTo(sent, NP)

\* the producer holds a Consumer: a WorkerChannel clone, or the live ThreadWorker
HasConsumer(p) == mode = "guarded" \/ owner = "alive"

\* a fetch loop that also waits for a record before it retries a batch
FetchMore_Retained(m) == MessageLen(m) < maxMsgRecord \/ base > 0

\* a fetch loop that waits for the first record only
FetchMore_One(m) == MessageLen(m) < 1

\* an off-by-one in the loop condition
FetchMore_Le(m) == MessageLen(m) <= maxMsgRecord

\* `while msg.len() < max_msg_record`
FetchMore(m) == MessageLen(m) < maxMsgRecord

\* ------------------------------------------------------------------ Init
\* thread(): unbounded channel, fresh Message, no cached writer (worker.rs 68-77)
WorkerInit ==
    /\ queue = <<>>
    /\ recvAlive = TRUE
    /\ owner = "alive"
    /\ stopResult = "none"
    /\ sent = [p \in Producers |-> 0]
    /\ ret = [p \in Producers |-> "none"]
    /\ msg = MessageNew(Tag)
    /\ ongoing_writer = "None"
    /\ writer = "None"
    /\ pc = "recv"
    /\ base = 0
    /\ flushIter = 0
    /\ written = <<>>
    /\ enq = <<>>
    /\ received = <<>>
    /\ everConnected = FALSE
    /\ attempt = <<>>

\* no event is being formatted
EventIdle ==
    /\ fmt = "Flatten"
    /\ spans = <<>>
    /\ event = [fields |-> <<>>, hasLoc |-> FALSE, now |-> [secs |-> 0, nanos |-> 0]]
    /\ event_record = <<>>
    /\ epc = "idle"
    /\ walked = <<>>

\* no Message is being encoded
CodecIdle ==
    /\ message = MessageNew(Tag)
    /\ wire = <<>>

Init ==
    /\ mode \in Modes
    /\ maxMsgRecord \in 1..MaxCap
    /\ WorkerInit
    /\ EventIdle
    /\ CodecIdle

workerVars == <<msg, ongoing_writer, writer, pc, base, flushIter, written,
                received, everConnected, attempt>>
ownerVars == <<owner, stopResult>>
producerVars == <<sent, ret>>
configVars == <<mode, maxMsgRecord>>
eventVars == <<fmt, spans, event, event_record, epc, walked>>
codecVars == <<message, wire>>
\* what the channel, the owner and the worker thread never touch
layerVars == <<eventVars, codecVars>>

\* ------------------------------------------------------------- producers
\* Layer::on_event -> Consumer::record (WorkerChannel::record / ThreadWorker::record)
Record(p) ==
    /\ HasConsumer(p)
    /\ TotalSent < MaxRec
    /\ LET r == [src |-> p, seq |-> sent[p] + 1] IN
        /\ queue' = SendQueue(queue, MsgRecord(r))
        /\ enq' = SendQueue(enq, MsgRecord(r))
        /\ ret' = [ret EXCEPT ![p] = RecordReturn(SendResult)]
    /\ sent' = [sent EXCEPT ![p] = sent[p] + 1]
    /\ UNCHANGED <<recvAlive, workerVars, ownerVars, configVars, layerVars>>

\* ----------------------------------------------------------------- owner
\* a guard that only drops the ThreadWorker, without stop()
GuardDrop_NoStop ==
    /\ mode = "guarded"
    /\ owner = "alive"
    /\ owner' = "joining"
    /\ UNCHANGED <<queue, enq, stopResult, recvAlive, workerVars, producerVars, configVars, layerVars>>

\* a stop() in FlushingGuard::drop and another one in ThreadWorker::drop
GuardDrop_StopTwice ==
    /\ mode = "guarded"
    /\ owner = "alive"
    /\ stopResult' = SendResult
    /\ queue' = SendQueue(SendQueue(queue, MsgTerminate), MsgTerminate)
    /\ enq' = SendQueue(SendQueue(enq, MsgTerminate), MsgTerminate)
    /\ owner' = "joining"
    /\ UNCHANGED <<recvAlive, workerVars, producerVars, configVars, layerVars>>

\* FlushingGuard::drop: stop() sends Terminate, then the ThreadWorker field
\* is dropped: its Sender is dropped and the thread is joined
GuardDrop ==
    /\ mode = "guarded"
    /\ owner = "alive"
    /\ stopResult' = SendResult
    /\ queue' = SendQueue(queue, MsgTerminate)
    /\ enq' = SendQueue(enq, MsgTerminate)
    /\ owner' = "joining"
    /\ UNCHANGED <<recvAlive, workerVars, producerVars, configVars, layerVars>>

\* drop of a Layer<F, ThreadWorker>: ThreadWorker::drop drops the Sender, then joins
PlainDrop ==
    /\ mode = "plain"
    /\ owner = "alive"
    /\ owner' = "joining"
    /\ UNCHANGED <<queue, enq, recvAlive, stopResult, workerVars, producerVars, configVars, layerVars>>

\* a drop that does not wait for the thread
Join_NoWait ==
    /\ owner = "joining"
    /\ owner' = "joined"
    /\ UNCHANGED <<queue, enq, recvAlive, stopResult, workerVars, producerVars, configVars, layerVars>>

\* worker.join() returns once the worker thread has ended
Join ==
    /\ owner = "joining"
    /\ pc = "done"
    /\ owner' = "joined"
    /\ UNCHANGED <<queue, enq, recvAlive, stopResult, workerVars, producerVars, configVars, layerVars>>

\* ---------------------------------------------------------------- worker
MainPcs == {"recv", "try_recv", "acquire", "make2", "write"}
FlushPcs == {"flush", "flush_acquire", "flush_make2", "flush_write"}
SendPcs == {"acquire", "make2", "write"}
\* after `break 'main_loop`: the final flush and the end of the closure
EndPcs == FlushPcs \cup {"done"}

\* what a receive step leaves alone besides msg, pc, queue and received
recvFrame == <<ongoing_writer, writer, base, flushIter, written, everConnected, attempt,
               enq, recvAlive, ownerVars, producerVars, configVars, layerVars>>

\* what a make() or write step leaves alone besides the worker's own locals
sendFrame == <<received, queue, enq, recvAlive, ownerVars, producerVars, configVars, layerVars>>

\* what the end of the thread leaves alone
endFrame == <<base, flushIter, received, everConnected, enq, ownerVars, producerVars,
              configVars, layerVars>>

\* taking one message out of the channel
Take ==
    /\ queue # <<>>
    /\ queue' = Tail(queue)
    /\ received' = Append(received, Head(queue))

\* recv() on an empty channel whose senders are all gone: RecvError / Disconnected
Disconnected == queue = <<>> /\ Senders = 0

\* the closure returns: msg, writers and the Receiver are dropped; a channel
\* without Receiver discards what is still queued
ThreadEnd ==
    /\ pc' = "done"
    /\ recvAlive' = FALSE
    /\ queue' = <<>>
    /\ msg' = MessageNew(msg.tag)
    /\ ongoing_writer' = "None"
    /\ writer' = "None"

\* blocking fetch: Ok(Message::Record(record)) => msg.add(record)
RecvRecord ==
    /\ pc = "recv"
    /\ FetchMore(msg)
    /\ Take
    /\ IsRecord(Head(queue))
    /\ msg' = MessageAdd(msg, Head(queue).record)
    /\ UNCHANGED <<pc, recvFrame>>

\* blocking fetch: Ok(Message::Terminate) | Err(RecvError) => break 'main_loop
RecvStop ==
    /\ pc = "recv"
    /\ FetchMore(msg)
    /\ \/ Take /\ ~IsRecord(Head(queue))
       \/ Disconnected /\ UNCHANGED <<queue, received>>
    /\ pc' = "flush"
    /\ UNCHANGED <<msg, recvFrame>>

\* a fetch that also gives up waiting once it holds a record and the
\* mailbox is empty
RecvFull_Early ==
    /\ pc = "recv"
    /\ ~FetchMore(msg) \/ (MessageLen(msg) >= 1 /\ queue = <<>>)
    /\ pc' = "try_recv"
    /\ UNCHANGED <<msg, queue, received, recvFrame>>

\* the while condition is false: go on to the try_recv loop
RecvFull ==
    /\ pc = "recv"
    /\ ~FetchMore(msg)
    /\ pc' = "try_recv"
    /\ UNCHANGED <<msg, queue, received, recvFrame>>

\* a drain that takes a record only while the batch is below the cap
TryRecvRecord_Capped ==
    /\ pc = "try_recv"
    /\ MessageLen(msg) < maxMsgRecord
    /\ Take
    /\ IsRecord(Head(queue))
    /\ msg' = MessageAdd(msg, Head(queue).record)
    /\ UNCHANGED <<pc, recvFrame>>

\* try_recv: Ok(Message::Record(record)) => msg.add(record)
TryRecvRecord ==
    /\ pc = "try_recv"
    /\ Take
    /\ IsRecord(Head(queue))
    /\ msg' = MessageAdd(msg, Head(queue).record)
    /\ UNCHANGED <<pc, recvFrame>>

\* a drain that also stops once the batch has reached the cap
TryRecvEmpty_Capped ==
    /\ pc = "try_recv"
    /\ \/ queue = <<>> /\ Senders > 0
       \/ queue # <<>> /\ MessageLen(msg) >= maxMsgRecord
    /\ pc' = "acquire"
    /\ UNCHANGED <<msg, queue, received, recvFrame>>

\* try_recv: Err(TryRecvError::Empty) => break
TryRecvEmpty ==
    /\ pc = "try_recv"
    /\ queue = <<>>
    /\ Senders > 0
    /\ pc' = "acquire"
    /\ UNCHANGED <<msg, queue, received, recvFrame>>

\* a plain `break`: Terminate only ends the try_recv loop
TryRecvStop_BreakInner ==
    /\ pc = "try_recv"
    /\ \/ Take /\ ~IsRecord(Head(queue))
       \/ Disconnected /\ UNCHANGED <<queue, received>>
    /\ pc' = "acquire"
    /\ UNCHANGED <<msg, recvFrame>>

\* try_recv: Ok(Message::Terminate) | Err(Disconnected) => break 'main_loop
TryRecvStop ==
    /\ pc = "try_recv"
    /\ \/ Take /\ ~IsRecord(Head(queue))
       \/ Disconnected /\ UNCHANGED <<queue, received>>
    /\ pc' = "flush"
    /\ UNCHANGED <<msg, recvFrame>>

\* outcome of MakeWriter::make and of rmp_serde::encode::write: the provider
\* and the sink are external, either call can fail at any time
Outcomes == {"ok", "err"}

\* an acquisition that always asks the provider and drops what was cached
AcquireWriter_AlwaysMake(nextOnOk, nextOnErr) ==
    \E o \in Outcomes :
        /\ writer' = IF o = "ok" THEN "Conn" ELSE "None"
        /\ ongoing_writer' = "None"
        /\ pc' = IF o = "ok" THEN nextOnOk ELSE nextOnErr
        /\ everConnected' = (everConnected \/ o = "ok")
        /\ attempt' = IF o = "ok" THEN <<"mkOk">> ELSE <<"mkErr">>

\* `ongoing_writer.take()` gave Some(writer), or writer.make() was called
AcquireWriter(nextOnOk, nextOnErr) ==
    IF ongoing_writer # "None"
    THEN /\ writer' = ongoing_writer
         /\ ongoing_writer' = "None"
         /\ pc' = nextOnOk
         /\ attempt' = <<>>
         /\ UNCHANGED everConnected
    ELSE \E o \in Outcomes :
         /\ writer' = IF o = "ok" THEN "Conn" ELSE "None"
         /\ pc' = IF o = "ok" THEN nextOnOk ELSE nextOnErr
         /\ everConnected' = (everConnected \/ o = "ok")
         /\ attempt' = IF o = "ok" THEN <<"mkOk">> ELSE <<"mkErr">>
         /\ UNCHANGED ongoing_writer

\* main loop, lines 96-99: take the cached writer or make one
Acquire ==
    /\ pc = "acquire"
    /\ AcquireWriter("write", "make2")
    /\ UNCHANGED <<msg, base, flushIter, written, sendFrame>>

\* main loop, lines 100-103: after the sleep, the second make() gave a writer
Make2Ok ==
    /\ pc = "make2"
    /\ writer' = "Conn"
    /\ pc' = "write"
    /\ everConnected' = TRUE
    /\ attempt' = Append(attempt, "mkOk")
    /\ UNCHANGED <<msg, ongoing_writer, base, flushIter, written, sendFrame>>

\* a second failed make() that gives up: `break 'main_loop`
Make2Err_Breaks ==
    /\ pc = "make2"
    /\ pc' = "flush"
    /\ attempt' = Append(attempt, "mkErr")
    /\ UNCHANGED <<msg, ongoing_writer, writer, base, flushIter, written, everConnected,
                   sendFrame>>

\* second make() failed: `continue 'main_loop` with the batch as it is
Make2Err ==
    /\ pc = "make2"
    /\ pc' = "recv"
    /\ base' = MessageLen(msg)
    /\ attempt' = Append(attempt, "mkErr")
    /\ UNCHANGED <<msg, ongoing_writer, writer, flushIter, written, everConnected,
                   sendFrame>>

\* a successful write after which the batch is not cleared
WriteOk_KeepsBatch ==
    /\ pc = "write"
    /\ written' = Append(written, Serialize(msg))
    /\ ongoing_writer' = writer
    /\ writer' = "None"
    /\ pc' = "recv"
    /\ base' = 0
    /\ attempt' = Append(attempt, "wrOk")
    /\ UNCHANGED <<msg, flushIter, everConnected, sendFrame>>

\* main loop, lines 113-117: write Ok => msg.clear(); ongoing_writer = Some(writer)
WriteOk ==
    /\ pc = "write"
    /\ written' = Append(written, Serialize(msg))
    /\ msg' = MessageClear(msg)
    /\ ongoing_writer' = writer
    /\ writer' = "None"
    /\ pc' = "recv"
    /\ base' = 0
    /\ attempt' = Append(attempt, "wrOk")
    /\ UNCHANGED <<flushIter, everConnected, sendFrame>>

\* a write error after which the failed writer is kept alive in its local
WriteErr_HoldsWriter ==
    /\ pc = "write"
    /\ pc' = "recv"
    /\ base' = MessageLen(msg)
    /\ attempt' = Append(attempt, "wrErr")
    /\ UNCHANGED <<msg, writer, ongoing_writer, flushIter, written, everConnected,
                   sendFrame>>

\* a write error after which the writer is put back into the cache
WriteErr_KeepsWriter ==
    /\ pc = "write"
    /\ ongoing_writer' = writer
    /\ writer' = "None"
    /\ pc' = "recv"
    /\ base' = MessageLen(msg)
    /\ attempt' = Append(attempt, "wrErr")
    /\ UNCHANGED <<msg, flushIter, written, everConnected, sendFrame>>

\* a write error handled like a success: the batch is cleared
WriteErr_Clears ==
    /\ pc = "write"
    /\ writer' = "None"
    /\ msg' = MessageClear(msg)
    /\ pc' = "recv"
    /\ base' = 0
    /\ attempt' = Append(attempt, "wrErr")
    /\ UNCHANGED <<ongoing_writer, flushIter, written, everConnected, sendFrame>>

\* main loop, lines 121-123: write Err => the writer is dropped, the batch kept
WriteErr ==
    /\ pc = "write"
    /\ writer' = "None"
    /\ pc' = "recv"
    /\ base' = MessageLen(msg)
    /\ attempt' = Append(attempt, "wrErr")
    /\ UNCHANGED <<msg, ongoing_writer, flushIter, written, everConnected, sendFrame>>

\* a final flush without the `if msg.len() > 0`
FlushStart_Always ==
    /\ pc = "flush"
    /\ pc' = "flush_acquire"
    /\ UNCHANGED <<msg, ongoing_writer, writer, base, flushIter, written, everConnected,
                   attempt, sendFrame>>

\* line 127: `if msg.len() > 0` guards the final flush
FlushStart ==
    /\ pc = "flush"
    /\ MessageLen(msg) > 0
    /\ pc' = "flush_acquire"
    /\ UNCHANGED <<msg, ongoing_writer, writer, base, flushIter, written, everConnected,
                   attempt, sendFrame>>

\* line 127 with an empty batch: the closure returns at once
FlushSkip ==
    /\ pc = "flush"
    /\ MessageLen(msg) = 0
    /\ ThreadEnd
    /\ UNCHANGED <<written, attempt, endFrame>>

\* lines 129-133: one more iteration of `for _ in 0..3`: take or make a writer
FlushAcquire ==
    /\ pc = "flush_acquire"
    /\ flushIter < FlushAttempts
    /\ flushIter' = flushIter + 1
    /\ AcquireWriter("flush_write", "flush_make2")
    /\ UNCHANGED <<msg, base, written, sendFrame>>

\* the range 0..3 is exhausted: the loop ends and the closure returns
FlushGiveUp ==
    /\ pc = "flush_acquire"
    /\ ~(flushIter < FlushAttempts)
    /\ ThreadEnd
    /\ UNCHANGED <<written, attempt, endFrame>>

\* lines 134-137: after the sleep, the second make() of the iteration
FlushMake2Ok ==
    /\ pc = "flush_make2"
    /\ writer' = "Conn"
    /\ pc' = "flush_write"
    /\ everConnected' = TRUE
    /\ attempt' = Append(attempt, "mkOk")
    /\ UNCHANGED <<msg, ongoing_writer, base, flushIter, written, sendFrame>>

\* lines 138-141: second make() failed: `continue` to the next iteration
FlushMake2Err ==
    /\ pc = "flush_make2"
    /\ pc' = "flush_acquire"
    /\ attempt' = Append(attempt, "mkErr")
    /\ UNCHANGED <<msg, ongoing_writer, writer, base, flushIter, written, everConnected,
                   sendFrame>>

\* lines 147-152: the write succeeded: `break`, the closure returns
FlushWriteOk ==
    /\ pc = "flush_write"
    /\ written' = Append(written, Serialize(msg))
    /\ attempt' = Append(attempt, "wrOk")
    /\ ThreadEnd
    /\ UNCHANGED endFrame

\* lines 147-149: the write failed: the writer is dropped, sleep, next iteration
FlushWriteErr ==
    /\ pc = "flush_write"
    /\ writer' = "None"
    /\ pc' = "flush_acquire"
    /\ attempt' = Append(attempt, "wrErr")
    /\ UNCHANGED <<msg, ongoing_writer, base, flushIter, written, everConnected,
                   sendFrame>>

\* the steps of the main loop that go on without a shutdown
MainLoop ==
    \/ RecvRecord \/ RecvFull \/ TryRecvRecord \/ TryRecvEmpty
    \/ Acquire \/ Make2Ok \/ Make2Err \/ WriteOk \/ WriteErr

Worker ==
    \/ MainLoop
    \/ RecvStop \/ TryRecvStop
    \/ FlushStart \/ FlushSkip \/ FlushAcquire \/ FlushGiveUp
    \/ FlushMake2Ok \/ FlushMake2Err \/ FlushWriteOk \/ FlushWriteErr

Next ==
    \/ \E p \in Producers : Record(p)
    \/ GuardDrop
    \/ PlainDrop
    \/ Join
    \/ Worker

Spec == Init /\ [][Next]_vars

\* the environment of the backlog scenario: every record is enqueued before
\* the worker's first receive, and neither Terminate nor a drop follows
NextBacklog ==
    \/ \E p \in Producers : received = <<>> /\ Record(p)
    \/ MainLoop

BacklogSpec == Init /\ [][NextBacklog]_vars

\* the worker's steps and the join are scheduled: every make() and write
\* call returns and a runnable thread eventually runs
FairSpec == Spec /\ WF_vars(Worker) /\ WF_vars(Join)

\* besides the scheduling of FairSpec, the provider and the sink recover:
\* a make() or a write that is tried again and again eventually succeeds
RetrySpec == FairSpec /\ SF_vars(Make2Ok) /\ SF_vars(WriteOk)

\* ------------------------------------------------------------ tracing.rs
Formatters == {"Nested", "Flatten"}
FieldKeys == {"k1", "level"}
SpanNames == <<"s1", "s2", "s3", "s4">>
\* clock readings of Record::now(): a Duration since the epoch
Times == {[secs |-> 1700000000, nanos |-> 0], [secs |-> 1700000001, nanos |-> 999999999]}

\* what FieldFormatter::new_span and on_record can have stored for a span:
\* a Map of its attributes (new_span stores one for every span)
SpanMaps ==
    LET Entries == {[key |-> k, value |-> Uint(n)] : k \in FieldKeys, n \in {1, 2}}
        Seqs == UNION {[1..n -> Entries] : n \in 0..Cardinality(FieldKeys)}
    IN {m \in Seqs : \A i, j \in 1..Len(m) : m[i].key = m[j].key => i = j}

\* the events tried: at most one field, with or without file and line
Events ==
    [fields : {<<>>} \cup {<<[key |-> k, value |-> Uint(3)]>> : k \in FieldKeys},
     hasLoc : BOOLEAN,
     now : Times]

\* an event is observed under a chain of at most MaxDepth nested spans
EventInit ==
    /\ mode \in Modes
    /\ maxMsgRecord = DEFAULT_MAX_MSG_RECORD
    /\ WorkerInit
    /\ CodecIdle
    /\ fmt \in Formatters
    /\ spans \in UNION {[1..d -> SpanMaps] : d \in 0..MaxDepth}
    /\ event \in Events
    /\ event_record = <<>>
    /\ epc = "start"
    /\ walked = <<>>

\* ctx.event_span(event): the innermost span, 0 for None
CurrentSpan == Len(spans)

\* SpanRef::parent: the enclosing span, 0 for None
Parent(span) == IF span = 0 THEN 0 ELSE span - 1

RECURSIVE InsertAll(_, _)
\* event.record(map): Visit::record_* inserts every field
InsertAll(m, fields) ==
    IF fields = <<>> THEN m
    ELSE InsertAll(MapInsert(m, Head(fields).key, Head(fields).value), Tail(fields))

\* the inserts of file, line, module and level
InsertMetadata(m, ev) ==
    LET located == IF ev.hasLoc
                   THEN MapInsert(MapInsert(m, "file", String("main.rs")), "line", Uint(7))
                   ELSE m
    IN MapInsert(MapInsert(located, "module", String("app")), "level", EventLevel("INFO"))

\* NestedFmt::on_event up to `if let Some(span) = current_span`
NestedHead(ev) ==
    MapInsert(InsertAll(<<>>, ev.fields), "metadata", Object(InsertMetadata(<<>>, ev)))

\* FlattenFmt::on_event up to `if let Some(span) = current_span`
FlattenHead(ev) == InsertMetadata(InsertAll(<<>>, ev.fields), ev)

eventFrame == <<fmt, spans, event, codecVars, queue, enq, recvAlive, workerVars,
                ownerVars, producerVars, configVars>>

\* Layer::on_event with NestedFmt: Record::now(), the event's fields, the
\* metadata object and the current span's Map under the span's name
NestedOnEvent ==
    /\ epc = "start"
    /\ fmt = "Nested"
    /\ event_record' =
          IF CurrentSpan = 0 THEN NestedHead(event)
          ELSE MapInsert(NestedHead(event), SpanNames[CurrentSpan],
                         Object(spans[CurrentSpan]))
    /\ epc' = "walk"
    /\ UNCHANGED <<walked, eventFrame>>

\* Layer::on_event with FlattenFmt: the fields and the metadata at top
\* level, then update() with the current span's Map
FlattenOnEvent ==
    /\ epc = "start"
    /\ fmt = "Flatten"
    /\ event_record' =
          IF CurrentSpan = 0 THEN FlattenHead(event)
          ELSE RecordUpdate(FlattenHead(event), spans[CurrentSpan])
    /\ epc' = "walk"
    /\ UNCHANGED <<walked, eventFrame>>

\* `while let Some(span) = span.parent()`: the scrutinee is evaluated in the
\* scope of the outer `span`, the current span, on every iteration; the
\* inner `span` it binds lives in the body only
LoopSpan == Parent(CurrentSpan)

\* body of the NestedFmt loop: the Map comes from `extensions`, which is
\* still the current span's, the name from the span bound by the loop
NestedWalk ==
    /\ epc = "walk"
    /\ fmt = "Nested"
    /\ LoopSpan # 0
    /\ Len(walked) < MaxWalk
    /\ event_record' = MapInsert(event_record, SpanNames[LoopSpan],
                                 Object(spans[CurrentSpan]))
    /\ walked' = Append(walked, LoopSpan)
    /\ UNCHANGED <<epc, eventFrame>>

\* body of the FlattenFmt loop: update() with the Map of the span bound by
\* the loop
FlattenWalk ==
    /\ epc = "walk"
    /\ fmt = "Flatten"
    /\ LoopSpan # 0
    /\ Len(walked) < MaxWalk
    /\ event_record' = RecordUpdate(event_record, spans[LoopSpan])
    /\ walked' = Append(walked, LoopSpan)
    /\ UNCHANGED <<epc, eventFrame>>

\* the formatter has returned (no current span, or the loop saw None):
\* self.consumer.record(record)
LayerRecord ==
    /\ epc = "walk"
    /\ LoopSpan = 0
    /\ LET record == [time |-> event.now, entries |-> event_record] IN
        /\ queue' = SendQueue(queue, MsgRecord(record))
        /\ enq' = SendQueue(enq, MsgRecord(record))
    /\ epc' = "sent"
    /\ UNCHANGED <<fmt, spans, event, event_record, walked, codecVars, recvAlive,
                   workerVars, ownerVars, producerVars, configVars>>

EventNext ==
    \/ NestedOnEvent \/ FlattenOnEvent
    \/ NestedWalk \/ FlattenWalk
    \/ LayerRecord

EventSpec == EventInit /\ [][EventNext]_vars

\* ------------------------------------------------- fluent.rs: encoding
\* one MessagePack object header or scalar, as rmp_serde emits it for a
\* call on the Serializer
Tok(t, v) == [t |-> t, v |-> v]

Levels == {"ERROR", "WARN", "INFO", "DEBUG", "TRACE"}

tracing_level_to_str(level) ==
    IF level = "ERROR" THEN "ERROR"
    ELSE IF level = "WARN" THEN "WARN"
    ELSE IF level = "INFO" THEN "INFO"
    ELSE IF level = "DEBUG" THEN "DEBUG"
    ELSE "TRACE"

\* Duration::as_secs
AsSecs(time) == time.secs

RECURSIVE SerValue(_)
RECURSIVE SerEntries(_)

\* a map written from its last entry to its first
SerMap_Reversed(m) ==
    LET rev == [i \in 1..Len(m) |-> m[Len(m) + 1 - i]]
    IN <<Tok("map", Len(m))>> \o SerEntries(rev)

\* Serialize for Map: serialize_map(Some(len)), then every entry in
\* iteration order
SerMap(m) == <<Tok("map", Len(m))>> \o SerEntries(m)

\* map.serialize_entry(key, value) for each entry
SerEntries(m) ==
    IF m = <<>> THEN <<>>
    ELSE <<Tok("str", Head(m).key)>> \o SerValue(Head(m).value) \o SerEntries(Tail(m))

\* Serialize for Value; rmp writes a non-negative i64 in the unsigned formats
SerValue(v) ==
    CASE v.kind = "Bool" -> <<Tok("bool", v.val)>>
      [] v.kind = "Int" -> <<Tok(IF v.val >= 0 THEN "uint" ELSE "int", v.val)>>
      [] v.kind = "Uint" -> <<Tok("uint", v.val)>>
      [] v.kind = "EventLevel" -> <<Tok("str", tracing_level_to_str(v.val))>>
      [] v.kind = "Str" -> <<Tok("str", v.val)>>
      [] v.kind = "String" -> <<Tok("str", v.val)>>
      [] v.kind = "Object" -> SerMap(v.val)

\* Serialize for Opts: a map of one entry, "size"
SerOpts(size) == <<Tok("map", 1), Tok("str", "size"), Tok("uint", size)>>

\* Serialize for Record without the event_time feature: [seconds, entries]
SerRecord(r) == <<Tok("array", 2), Tok("uint", AsSecs(r.time))>> \o SerMap(r.entries)

RECURSIVE SerRecords(_)
SerRecords(rs) == IF rs = <<>> THEN <<>> ELSE SerRecord(Head(rs)) \o SerRecords(Tail(rs))

\* Serialize for Message: the tuple of tag, entries (a Vec: a sequence with
\* its length) and opts
SerMessage(m) ==
    <<Tok("array", 3), Tok("str", m.tag), Tok("array", Len(m.entries))>>
        \o SerRecords(m.entries) \o SerOpts(m.size)

RECURSIVE ParseValue(_, _)
RECURSIVE ParseItems(_, _, _, _)

\* a MessagePack decoder: the object that starts at position i of the
\* stream and the position after it; an array is decoded to a sequence, a
\* map to the sequence of its <<key, value>> pairs in wire order
ParseValue(toks, i) ==
    LET tok == toks[i] IN
    IF tok.t = "array" THEN ParseItems(toks, i + 1, tok.v, <<>>)
    ELSE IF tok.t = "map" THEN
        LET flat == ParseItems(toks, i + 1, 2 * tok.v, <<>>)
        IN [val |-> [k \in 1..tok.v |-> <<flat.val[2 * k - 1], flat.val[2 * k]>>],
            next |-> flat.next]
    ELSE [val |-> tok.v, next |-> i + 1]

\* n consecutive objects from position i on
ParseItems(toks, i, n, acc) ==
    IF n = 0 THEN [val |-> acc, next |-> i]
    ELSE LET item == ParseValue(toks, i)
         IN ParseItems(toks, item.next, n - 1, Append(acc, item.val))

\* the object a decoder reads from a stream that holds exactly one object
Decode(toks) == ParseValue(toks, 1).val

RECURSIVE PlainMap(_)
\* what a fluent::Map denotes on the receiving side: its <<key, value>>
\* pairs in insertion order, a level by its name, an Object as a map
PlainMap(m) ==
    [i \in 1..Len(m) |->
        <<m[i].key,
          IF m[i].value.kind = "Object" THEN PlainMap(m[i].value.val)
          ELSE IF m[i].value.kind = "EventLevel" THEN tracing_level_to_str(m[i].value.val)
          ELSE m[i].value.val>>]

\* Maps as the formatters build them, and Maps with the other Value variants
RecordMaps ==
    {NestedHead(e) : e \in Events} \cup {FlattenHead(e) : e \in Events}
    \cup {<<>>,
          <<[key |-> "msg", value |-> Str("hello")]>>,
          <<[key |-> "k2", value |-> I64(0 - 1)], [key |-> "k1", value |-> I64(5)],
            [key |-> "ok", value |-> Bool(TRUE)]>>}
    \cup {<<[key |-> "level", value |-> EventLevel(l)]>> : l \in Levels}

Records == [time : Times, entries : RecordMaps]

\* a Message after any adds: up to MaxBatch records, size kept by add()
Messages ==
    {[tag |-> Tag, entries |-> es, size |-> Len(es)] :
        es \in UNION {[1..n -> Records] : n \in 0..MaxBatch}}

CodecInit ==
    /\ mode \in Modes
    /\ maxMsgRecord = DEFAULT_MAX_MSG_RECORD
    /\ WorkerInit
    /\ EventIdle
    /\ message \in Messages
    /\ wire = <<>>

\* rmp_serde::encode::write(&mut writer, &msg)
EncodeWrite ==
    /\ wire = <<>>
    /\ wire' = SerMessage(message)
    /\ UNCHANGED <<message, eventVars, queue, enq, recvAlive, workerVars, ownerVars,
                   producerVars, configVars>>

CodecSpec == CodecInit /\ [][EncodeWrite]_vars

\* ------------------------------------- fluent.rs: the event_time feature
\* a u64 is kept as its four 16-bit limbs, most significant first, so that
\* seconds of 2^32 and more can be told from their truncation
U64(n) == <<0, 0, n \div 65536, n % 65536>>

\* a cast that saturates instead of truncating
AsU32_Saturating(limbs) ==
    IF limbs[1] = 0 /\ limbs[2] = 0 THEN <<limbs[3], limbs[4]>> ELSE <<65535, 65535>>

\* `seconds as u32`: the low 32 bits
AsU32(limbs) == <<limbs[3], limbs[4]>>

\* Duration::subsec_nanos is a u32 already
NanosU32(nanos) == <<nanos \div 65536, nanos % 65536>>

\* u32::to_be_bytes
ToBeBytes(u32) ==
    <<u32[1] \div 256, u32[1] % 256, u32[2] \div 256, u32[2] % 256>>

\* the 8 bytes of the EventTime ext: seconds, then nanoseconds
EventTimeBytes(time) ==
    ToBeBytes(AsU32(time.secs)) \o ToBeBytes(NanosU32(time.nanos))

\* Serialize for Record with the event_time feature: the timestamp is the
\* ext value of type 0 that holds the 8 bytes
SerRecordEventTime(r) ==
    <<Tok("array", 2), Tok("ext", [type |-> 0, data |-> EventTimeBytes(r.time)])>>
        \o SerMap(r.entries)

\* clock readings around the 2^32 seconds boundary (year 2106)
WideTimes ==
    [secs : {U64(0), U64(1700000000), <<0, 0, 65535, 65535>>, <<0, 1, 0, 0>>,
             <<0, 1, 25939, 61696>>, <<65535, 65535, 65535, 65534>>},
     nanos : {0, 1, 65536, 999999999}]

\* a Message of one record, in a build with the event_time feature
EventTimeInit ==
    /\ mode \in Modes
    /\ maxMsgRecord = DEFAULT_MAX_MSG_RECORD
    /\ WorkerInit
    /\ EventIdle
    /\ message \in {[tag |-> Tag, entries |-> <<r>>, size |-> 1] :
                       r \in [time : WideTimes, entries : RecordMaps]}
    /\ wire = <<>>

\* rmp_serde::encode::write(&mut writer, &msg) in that build
EncodeWriteEventTime ==
    /\ wire = <<>>
    /\ wire' = <<Tok("array", 3), Tok("str", message.tag), Tok("array", 1)>>
                    \o SerRecordEventTime(message.entries[1]) \o SerOpts(message.size)
    /\ UNCHANGED <<message, eventVars, queue, enq, recvAlive, workerVars, ownerVars,
                   producerVars, configVars>>

EventTimeSpec == EventTimeInit /\ [][EncodeWriteEventTime]_vars

\* ------------------------------------------------------ derived notions
RECURSIVE RecordsOf(_)
\* the records of a sequence of channel messages, in order
RecordsOf(s) ==
    IF s = <<>> THEN <<>>
    ELSE IF IsRecord(Head(s)) THEN <<Head(s).record>> \o RecordsOf(Tail(s))
         ELSE RecordsOf(Tail(s))

RECURSIVE Flat(_)
\* the records of a sequence of written batches, concatenated in write order
Flat(w) == IF w = <<>> THEN <<>> ELSE Head(w)[2] \o Flat(Tail(w))

RECURSIVE BeforeTerminate(_)
\* the messages of s that precede its first Terminate
BeforeTerminate(s) ==
    IF s = <<>> \/ ~IsRecord(Head(s)) THEN <<>>
    ELSE <<Head(s)>> \o BeforeTerminate(Tail(s))

TerminateSeen == \E i \in 1..Len(received) : ~IsRecord(received[i])

\* -------------------------------------------------------------- claims

\* C1: before shutdown is observed a failed delivery cycle loses nothing: the
\* records the worker has received are exactly the records already written
\* followed by the batch, in receive order, so the batch keeps every record
\* not yet written and the next successful write carries all of them in order.
C1_RetryKeepsBatch ==
    pc \in MainPcs => RecordsOf(received) = Flat(written) \o msg.entries

\* a cycle failed with a retained batch, which has since grown and is being written
C1_Witness ==
    pc = "write" /\ base > 0 /\ MessageLen(msg) > base

\* C2: in the concatenation of the successfully written batches the records
\* of one producer appear in the order in which that producer enqueued them.
C2_FifoPerProducer ==
    LET w == Flat(written) IN
    \A i, j \in 1..Len(w) :
        (i < j /\ w[i].src = w[j].src) => w[i].seq < w[j].seq

\* two records of one producer written in two batches, other records between
C2_Witness ==
    /\ Len(written) >= 2
    /\ \E p \in Producers :
        /\ \E i \in 1..Len(written[1][2]) : written[1][2][i].src = p
        /\ \E i \in 1..Len(written[2][2]) : written[2][2][i].src = p
    /\ \E i \in 1..Len(Flat(written)) : Flat(written)[i].src # Flat(written)[1].src

\* C3 (as stated): once the worker has received one record and the mailbox is
\* empty it leaves the blocking fetch for Sending, whatever max_msg_record is.
C3_OneRecordTriggersSend ==
    (pc = "recv" /\ MessageLen(msg) >= 1 /\ queue = <<>>) => ENABLED RecvFull

\* C3 (amended): the worker leaves the blocking fetch only with at least
\* max_msg_record records in the batch; with that many and an empty mailbox
\* it proceeds to Sending without waiting, and while it holds fewer and the
\* mailbox is empty (senders alive) it waits, whatever it already holds.
C3_BlocksUntilCap ==
    /\ pc \in {"try_recv", "acquire"} => MessageLen(msg) >= maxMsgRecord
    /\ (pc = "recv" /\ MessageLen(msg) >= maxMsgRecord) => ENABLED RecvFull
    /\ (pc = "try_recv" /\ queue = <<>> /\ Senders > 0) => ENABLED TryRecvEmpty
    /\ (pc = "recv" /\ MessageLen(msg) < maxMsgRecord /\ queue = <<>> /\ Senders > 0)
          => ~ENABLED Worker

\* the worker holds a record, the mailbox is empty, and it waits for more
C3_Witness ==
    /\ pc = "recv" /\ queue = <<>> /\ Senders > 0
    /\ MessageLen(msg) >= 1 /\ MessageLen(msg) < maxMsgRecord

\* C4: after a Terminate, when the final flush saw make() fail once, then
\* succeed, and the write succeed, the worker has ended with every record
\* enqueued before Terminate written, the flush having written the whole
\* pending batch as one non-empty batch; and the join returns only after that.
C4_FlushOnSecondMake ==
    /\ owner = "joined" => pc = "done"
    /\ (mode = "guarded" /\ flushIter = 1 /\ attempt = <<"mkErr", "mkOk", "wrOk">>) =>
          /\ pc = "done"
          /\ written # <<>>
          /\ written[Len(written)][2] # <<>>
          /\ TerminateSeen
          /\ Flat(written) = RecordsOf(BeforeTerminate(enq))

\* the guard's join has returned after such a flush
C4_Witness ==
    /\ mode = "guarded" /\ owner = "joined"
    /\ flushIter = 1 /\ attempt = <<"mkErr", "mkOk", "wrOk">>

\* C5: the final flush starts at most 3 attempts and none after a successful
\* write; when no make() call ever succeeded and records were pending, the
\* worker ends after exactly 3 attempts (each with two failed make() calls),
\* nothing was written, the batch is gone and the join can return.
C5_FlushAttemptsBounded ==
    /\ flushIter <= 3
    /\ (flushIter > 0 /\ attempt # <<>> /\ attempt[Len(attempt)] = "wrOk") => pc = "done"
    /\ (pc = "done" /\ ~everConnected /\ RecordsOf(received) # <<>>) =>
          /\ flushIter = 3
          /\ attempt = <<"mkErr", "mkErr">>
          /\ written = <<>>
          /\ msg.entries = <<>>
          /\ owner = "joining" => ENABLED Join

\* the join has returned after 3 attempts that all failed in make()
C5_Witness ==
    /\ pc = "done" /\ owner = "joined" /\ ~everConnected
    /\ RecordsOf(received) # <<>> /\ flushIter = 3


\* C6 (as stated): a batch assembled from an empty Message never holds more
\* than max_msg_record records when it is sent.
C6_DrainStopsAtCap ==
    (pc \in SendPcs /\ base = 0) => MessageLen(msg) <= maxMsgRecord

\* C6 (amended): starting from an empty batch only the blocking fetch stops
\* at max_msg_record: it adds a record only below the cap, the try_recv drain
\* ends only on an empty mailbox, and the batch sent holds at least
\* max_msg_record records.
C6_OnlyFetchCapped ==
    /\ [](pc \in SendPcs /\ base = 0 => MessageLen(msg) >= maxMsgRecord)
    /\ [][(pc = "recv" /\ msg' # msg) => MessageLen(msg) < maxMsgRecord]_vars
    /\ [][(pc = "try_recv" /\ pc' = "acquire") => queue = <<>>]_vars

\* a batch assembled from an empty Message is sent with more records than the cap
C6_Witness ==
    pc = "write" /\ base = 0 /\ MessageLen(msg) > maxMsgRecord

\* C7: when all records are queued before the worker's first receive and
\* nothing is enqueued afterwards, a backlog of more than max_msg_record
\* records is put into the first batch whole, in queue order.
C7_BacklogInOneBatch ==
    (pc \in SendPcs /\ written = <<>> /\ Len(enq) > maxMsgRecord) =>
        /\ msg.entries = RecordsOf(enq)
        /\ MessageLen(msg) = Len(enq)
        /\ queue = <<>>

\* a backlog larger than the cap sits whole in the batch about to be sent
C7_Witness ==
    /\ pc = "acquire" /\ written = <<>>
    /\ Len(enq) > maxMsgRecord /\ MessageLen(msg) = Len(enq)

\* C8: a producer holding a Consumer can always call record(), whatever the
\* worker is doing and also after it has ended, and the call never gives an
\* error back to the caller.
C8_RecordInfallible ==
    \A p \in Producers :
        /\ (HasConsumer(p) /\ TotalSent < MaxRec) => ENABLED Record(p)
        /\ ret[p] \in {"none", "unit"}

\* a record() call made after the worker had ended returned normally
C8_Witness ==
    /\ ~recvAlive
    /\ Len(RecordsOf(enq)) < TotalSent
    /\ \E p \in Producers : ret[p] = "unit"

\* C9: once the guard has sent Terminate and waits in the join, the worker
\* eventually ends and the join returns, although the layers keep their
\* senders and producers keep enqueuing.
C9_TerminateLeadsToJoin ==
    (mode = "guarded" /\ owner = "joining") ~> (pc = "done" /\ owner = "joined")

\* the guard's join has returned while records were sent after Terminate
C9_Witness ==
    /\ mode = "guarded" /\ owner = "joined" /\ pc = "done"
    /\ Len(RecordsOf(enq)) > Len(RecordsOf(BeforeTerminate(enq)))

\* C10: once the worker has taken Terminate out of the mailbox it receives
\* nothing more and its batch never grows, so only records that precede
\* Terminate in the channel are ever in the batch or written.
C10_NoReceiveAfterTerminate ==
    /\ [][TerminateSeen =>
            (received' = received /\ MessageLen(msg') <= MessageLen(msg))]_vars
    /\ [](TerminateSeen =>
            Len(Flat(written)) + MessageLen(msg) <= Len(BeforeTerminate(enq)))
    /\ [](\A i \in 1..Len(received) : ~IsRecord(received[i]) => i = Len(received))

\* Terminate was observed while records sat behind it in the mailbox
C10_Witness ==
    TerminateSeen /\ pc \in FlushPcs /\ queue # <<>>

\* C11: without a guard no Terminate is ever sent; once the ThreadWorker is
\* dropped the worker still receives every queued record, sees the closed
\* channel only on an empty mailbox, runs the same final flush (at most 3
\* attempts on the pending batch, which holds all records not yet written)
\* and ends, so that the join of the drop returns.
C11_ClosedChannelLikeTerminate ==
    /\ [](mode = "plain" => \A i \in 1..Len(enq) : IsRecord(enq[i]))
    /\ [](mode = "plain" /\ pc \in FlushPcs =>
            /\ queue = <<>> /\ received = enq /\ owner # "alive"
            /\ Flat(written) \o msg.entries = RecordsOf(enq)
            /\ flushIter <= FlushAttempts)
    /\ [](mode = "plain" /\ pc = "done" /\ (flushIter = 0 \/ attempt[Len(attempt)] = "wrOk") =>
            Flat(written) = RecordsOf(enq))
    /\ (mode = "plain" /\ owner = "joining") ~> (pc = "done" /\ owner = "joined")

\* the drop of an unguarded layer has returned after the worker flushed
\* records that were still queued when the last sender went away
C11_Witness ==
    /\ mode = "plain" /\ owner = "joined" /\ pc = "done"
    /\ flushIter >= 1 /\ attempt[Len(attempt)] = "wrOk"
    /\ Len(written[Len(written)][2]) >= 2

\* C12: the channel accepts at most one Terminate in a run (stop() is called
\* only by the drop of the one FlushingGuard); the worker enters the final
\* flush only from the two receive loops, and once it is in the final flush
\* it never goes back to the main loop: it stays there until it ends.
C12_OneTerminateOneDrain ==
    /\ [](Cardinality({i \in 1..Len(enq) : ~IsRecord(enq[i])}) <= 1)
    /\ [](stopResult # "none" <=> \E i \in 1..Len(enq) : ~IsRecord(enq[i]))
    /\ [][(pc \in EndPcs) => (pc' \in EndPcs)]_vars
    /\ [][(pc' = "flush" /\ pc # "flush") => pc \in {"recv", "try_recv"}]_vars

\* Terminate was sent and taken, the flush ran and the worker has ended
C12_Witness ==
    /\ stopResult = "ok" /\ TerminateSeen
    /\ pc = "done" /\ flushIter >= 2

RECURSIVE Ancestors(_)
\* the spans enclosing span, innermost first
Ancestors(span) ==
    IF Parent(span) = 0 THEN <<>> ELSE <<Parent(span)>> \o Ancestors(Parent(span))

\* C13: on_event enqueues the record exactly once, when the formatter has
\* returned, and the formatter's parent loop visits the ancestors of the
\* current span innermost first, each one once: what it has visited is
\* always a prefix of the chain of ancestors, and the whole chain when the
\* record is enqueued.
C13_WalkVisitsEachAncestorOnce ==
    epc # "idle" =>
        /\ Len(enq) = (IF epc = "sent" THEN 1 ELSE 0)
        /\ Len(walked) <= Len(Ancestors(CurrentSpan))
        /\ walked = SubSeq(Ancestors(CurrentSpan), 1, Len(walked))
        /\ epc = "sent" => walked = Ancestors(CurrentSpan)

\* C14: whatever adds and clears the worker has applied to its Message, the
\* size option equals the number of records held, and every batch written
\* carries a size option equal to the number of records in it.
C14_SizeCountsRecords ==
    /\ msg.size = Len(msg.entries)
    /\ \A i \in 1..Len(written) : written[i][3].size = Len(written[i][2])

\* two batches were written, with a clear between them, and the Message
\* has been added to again
C14_Witness ==
    /\ Len(written) >= 2 /\ written[2][3].size >= 1
    /\ MessageLen(msg) >= 1

C16_EncodeDecodeShape ==
    wire # <<>> =>
        /\ ParseValue(wire, 1).next = Len(wire) + 1
        /\ Decode(wire) =
             <<message.tag,
               [i \in 1..Len(message.entries) |->
                    <<AsSecs(message.entries[i].time), PlainMap(message.entries[i].entries)>>],
               << <<"size", Len(message.entries)>> >> >>

\* two records were encoded, the first with a nested metadata object, the
\* second with keys that are not in sorted order
C16_Witness ==
    /\ wire # <<>> /\ Len(message.entries) = 2
    /\ Len(message.entries[1].entries) >= 1
    /\ message.entries[1].entries[1].key = "metadata"
    /\ Len(message.entries[2].entries) = 3 /\ message.entries[2].entries[1].key = "k2"
    /\ message.entries[1].time # message.entries[2].time

C19_RetainedBatchUncapped ==
    /\ []((pc \in MainPcs /\ base > 0) =>
            (MessageLen(msg) >= base /\ base >= maxMsgRecord))
    /\ []((pc = "try_recv" /\ queue # <<>> /\ IsRecord(Head(queue))) =>
            (ENABLED TryRecvRecord /\ ~ENABLED TryRecvEmpty))
    /\ [][(pc \in {"make2", "write"} /\ pc' = "recv" /\ written' = written) =>
            (msg' = msg /\ base' = MessageLen(msg) /\ base' >= base /\ base' > 0)]_vars
    /\ [][(pc = "try_recv" /\ msg' # msg) =>
            (MessageLen(msg') = MessageLen(msg) + 1 /\ queue' = Tail(queue))]_vars
    /\ [][(pc = "try_recv" /\ pc' = "acquire") => queue = <<>>]_vars

\* a batch retained with more records than the cap has grown again and is
\* up for another attempt
C19_Witness ==
    /\ pc = "acquire" /\ base > maxMsgRecord
    /\ MessageLen(msg) > base

\* C20: while the worker holds a batch retained by a failed cycle it is
\* never blocked, in particular not in the blocking receive, whether or not
\* a record is queued; and when make() and the write eventually succeed the
\* retained batch is eventually written (or shutdown is observed first),
\* also when no producer enqueues anything more.
C20_RetainedBatchRetried ==
    /\ []((pc \in MainPcs /\ base > 0) =>
            (ENABLED Worker /\ (pc = "recv" => ENABLED RecvFull)))
    /\ (pc \in MainPcs /\ base > 0) ~> (base = 0 \/ pc \in EndPcs)

\* the retained batch is written again as it was, the mailbox being empty
\* and every record of the run already enqueued
C20_Witness ==
    /\ pc = "write" /\ base > 0 /\ MessageLen(msg) = base
    /\ queue = <<>> /\ TotalSent = MaxRec /\ owner = "alive"

\* C21: the worker never holds two connections: `writer` and the cache are
\* never both occupied, and every make() call happens while both are empty;
\* a write happens only at the worker's write positions, on the held
\* writer, one batch at a time; and only steps of the worker thread (no
\* producer, no owner step) change the writers or the sink.
C21_OneConnectionSequential ==
    /\ [](~(writer # "None" /\ ongoing_writer # "None"))
    /\ [](pc \notin {"write", "flush_write"} => writer = "None")
    /\ [][(attempt' # attempt /\ attempt' # <<>>
             /\ attempt'[Len(attempt')] \in {"mkOk", "mkErr"})
            => (writer = "None" /\ ongoing_writer = "None"
                /\ pc \in {"acquire", "make2", "flush_acquire", "flush_make2"})]_vars
    /\ [][(written' # written) =>
            /\ pc \in {"write", "flush_write"} /\ writer = "Conn"
            /\ written' = Append(written, Serialize(msg))]_vars
    /\ [][(writer' # writer \/ ongoing_writer' # ongoing_writer \/ written' # written)
            => (pc' # pc /\ sent' = sent /\ ret' = ret /\ owner' = owner
                /\ stopResult' = stopResult /\ enq' = enq)]_vars

\* in the final flush a second connection is held after the connection of
\* an earlier write is gone, while records sit in the mailbox
C21_Witness ==
    /\ pc = "flush_write" /\ flushIter >= 2
    /\ written # <<>> /\ writer = "Conn" /\ queue # <<>>

\* C22: with the event_time feature the timestamp of an encoded record is
\* an ext value of type 0 with 8 bytes: read as two big-endian u32, the
\* second is the record's nanoseconds (below 10^9) and the first is the low
\* 32 bits of its seconds, so the exact seconds when they are below 2^32
\* and the seconds modulo 2^32 otherwise.
C22_EventTimeBigEndianU32 ==
    wire # <<>> =>
        LET time == message.entries[1].time
            ext == wire[5]
            b == ext.v.data
            secs32 == <<b[1] * 256 + b[2], b[3] * 256 + b[4]>>
            nanos == (b[5] * 256 + b[6]) * 65536 + b[7] * 256 + b[8]
        IN /\ ext.t = "ext" /\ ext.v.type = 0
           /\ Len(b) = 8 /\ \A i \in 1..8 : b[i] \in 0..255
           /\ nanos = time.nanos /\ nanos < 1000000000
           /\ secs32 = <<time.secs[3], time.secs[4]>>
           /\ (time.secs[1] = 0 /\ time.secs[2] = 0) => <<0, 0>> \o secs32 = time.secs
           /\ Decode(wire)[2][1][1].data = b

\* a record with seconds of 2^32 or more and a non-zero nanosecond part
\* has been encoded
C22_Witness ==
    /\ wire # <<>> /\ wire[5].t = "ext"
    /\ message.entries[1].time.secs[2] >= 1
    /\ message.entries[1].time.nanos = 999999999

\* C23: the blocking fetch is left for the drain only with max_msg_record
\* records or more, so every acquisition and write of the main loop has at
\* least that many in the batch; a written batch with fewer records is the
\* last one written and was written by the final flush.
C23_MainLoopSendsFullBatches ==
    /\ [](pc \in SendPcs \cup {"try_recv"} => MessageLen(msg) >= maxMsgRecord)
    /\ [](\A i \in 1..Len(written) :
            Len(written[i][2]) < maxMsgRecord =>
                (i = Len(written) /\ pc = "done" /\ flushIter >= 1
                 /\ attempt[Len(attempt)] = "wrOk"))
    /\ [][(pc = "write" /\ written' # written) =>
            Len(written'[Len(written')][2]) >= maxMsgRecord]_vars

\* after a full batch written by the main loop the final flush has written
\* a batch with fewer than max_msg_record records
C23_Witness ==
    /\ pc = "done" /\ Len(written) >= 2
    /\ Len(written[1][2]) >= maxMsgRecord
    /\ Len(written[Len(written)][2]) < maxMsgRecord

\* C24: with max_msg_record >= 1 the batch is never empty where the worker
\* asks for a writer or writes, in the main loop or in the final flush, so
\* no written batch is empty and no make() call is made for an empty batch;
\* a shutdown observed with an empty batch ends the thread at once, with no
\* flush iteration, no make() call and no write.
C24_NoDeliveryOfEmptyBatch ==
    /\ [](maxMsgRecord >= 1)
    /\ [](pc \in SendPcs \cup {"flush_acquire", "flush_make2", "flush_write"} =>
            MessageLen(msg) >= 1)
    /\ [](\A i \in 1..Len(written) :
            Len(written[i][2]) >= 1 /\ written[i][3].size >= 1)
    /\ [][(attempt' # attempt /\ attempt' # <<>>) => MessageLen(msg) >= 1]_vars
    /\ [][(pc = "flush" /\ pc' # pc /\ MessageLen(msg) = 0) =>
            (pc' = "done" /\ flushIter' = 0 /\ attempt' = attempt
             /\ written' = written /\ everConnected' = everConnected)]_vars

\* Terminate was taken right after a successful write: the batch was
\* empty and the thread ended without a flush iteration
C24_Witness ==
    /\ pc = "done" /\ flushIter = 0 /\ TerminateSeen
    /\ written # <<>> /\ attempt[Len(attempt)] = "wrOk"

\* C25: no record occurs twice in the successfully written batches, within
\* one batch or across batches; the written records are, in order, the
\* first records the worker received, and none of them is still in the
\* batch; and a successful write of the final flush ends the thread, so
\* the flush writes at most once.
C25_NoRecordWrittenTwice ==
    /\ [](LET w == Flat(written) IN
            /\ \A i, j \in 1..Len(w) : w[i] = w[j] => i = j
            /\ Len(w) <= Len(RecordsOf(received))
            /\ w = SubSeq(RecordsOf(received), 1, Len(w))
            /\ \A i \in 1..Len(w), j \in 1..MessageLen(msg) : w[i] # msg.entries[j])
    /\ [][(pc = "flush_write" /\ written' # written) => pc' = "done"]_vars
    /\ [][(pc = "done") => (written' = written /\ pc' = "done")]_vars

\* a batch whose write had failed in the main loop was written by the
\* final flush on a later iteration, after an earlier batch
C25_Witness ==
    /\ pc = "done" /\ Len(written) >= 2 /\ flushIter >= 2
    /\ attempt[Len(attempt)] = "wrOk" /\ base > 0

\* C26: the send in stop() never fails: when the guard calls stop() the
\* Receiver still exists and the worker is still in its main loop, because
\* the worker leaves the main loop only when it has taken Terminate or has
\* found the channel empty with no sender left, and the ThreadWorker's own
\* sender is alive until stop() has returned.
C26_StopAssertionHolds ==
    /\ [](stopResult \in {"none", "ok"})
    /\ [][(stopResult' # stopResult) =>
            /\ recvAlive /\ pc \in MainPcs /\ owner = "alive" /\ Senders >= 1
            /\ queue' = Append(queue, MsgTerminate)
            /\ stopResult' = "ok"]_vars
    /\ [][(pc \in MainPcs /\ pc' \notin MainPcs) =>
            /\ pc' = "flush"
            /\ \/ (queue # <<>> /\ Head(queue) = MsgTerminate /\ queue' = Tail(queue))
               \/ (queue = <<>> /\ Senders = 0)]_vars
    /\ [](owner = "alive" => (recvAlive /\ pc \in MainPcs))

\* stop() has sent its Terminate while the worker was busy with a batch
\* retained from a failed cycle
C26_Witness ==
    /\ stopResult = "ok" /\ ~TerminateSeen
    /\ pc \in SendPcs /\ base > 0 /\ owner = "joining"

====
